---- MODULE Spec2Model ----
(***************************************************************************)
(* A model of model/features.py of bitpredict: feature derivation from     *)
(* order-book snapshots and trades.                                        *)
(*                                                                         *)
(* Numbers are exact rationals <<num, den>> in lowest terms (den > 0).     *)
(* A missing value (None / NaN) is the empty tuple.  The logarithm of a    *)
(* rational q /= 1 is kept symbolically as <<num, den, 0>>; log(1) is the  *)
(* rational zero.                                                          *)
(***************************************************************************)
EXTENDS Integers, Sequences, FiniteSets, TLC

\* ------------------------------------------------------------------ bounds
MaxTs == 3          \* book timestamps range over 0..MaxTs
MaxTrades == 3      \* trades in the trade store
MaxLen == 4         \* rows of a trade table handed to get_trades_in_range alone
MaxLevels == 2      \* depth levels on one side of a book
MaxOffset == 2      \* mid offsets range over 1..MaxOffset
MaxTradeOffset == 3 \* trade offsets range over 1..MaxTradeOffset


\* --------------------------------------------------------------- numbers
Abs(x) == IF x < 0 THEN -x ELSE x

RECURSIVE GCD(_, _)
GCD(a, b) == IF b = 0 THEN a ELSE GCD(b, a % b)

Rat(n, d) ==
    LET g == GCD(Abs(n), Abs(d))
        s == IF d < 0 THEN -1 ELSE 1
    IN  <<(s * n) \div g, (s * d) \div g>>

Num(n) == <<n, 1>>
Zero == <<0, 1>>
Missing == <<>>
IsMissing(v) == v = Missing

\* Arithmetic of pandas/numpy floats; a missing operand gives a missing result.
RAdd(a, b) == IF IsMissing(a) \/ IsMissing(b) THEN Missing
              ELSE Rat(a[1] * b[2] + b[1] * a[2], a[2] * b[2])
RSub(a, b) == IF IsMissing(a) \/ IsMissing(b) THEN Missing
              ELSE Rat(a[1] * b[2] - b[1] * a[2], a[2] * b[2])
RMul(a, b) == IF IsMissing(a) \/ IsMissing(b) THEN Missing
              ELSE Rat(a[1] * b[1], a[2] * b[2])
\* x / 0 with x /= 0 is numpy's inf, which Rat gives as <<1, 0>> or <<-1, 0>>.
RDiv(a, b) == IF IsMissing(a) \/ IsMissing(b) THEN Missing
              ELSE Rat(a[1] * b[2], a[2] * b[1])

RECURSIVE RPow(_, _)
RPow(a, p) == IF p = 0 THEN Num(1) ELSE RMul(a, RPow(a, p - 1))

\* Series.sum(): missing entries are skipped.
RECURSIVE Sum(_)
Sum(s) == IF s = <<>> THEN Zero
          ELSE IF IsMissing(Head(s)) THEN Sum(Tail(s))
          ELSE RAdd(Head(s), Sum(Tail(s)))

\* .apply(log): log(nan) is nan, log(1) is 0.  (Prices and amounts are positive,
\* so log never sees a number <= 0.)
Log(v) == IF IsMissing(v) THEN Missing
          ELSE IF v = Num(1) THEN Zero
          ELSE <<v[1], v[2], 0>>

\* A variant that leaves the missing value in place.
fillna_keeps_missing(v) == v

\* .fillna(0)
fillna(v) == IF IsMissing(v) THEN Zero ELSE v

\* s.iloc[:n]
Take(s, n) == SubSeq(s, 1, IF n < Len(s) THEN n ELSE Len(s))

Range(s) == {s[i] : i \in DOMAIN s}
Min(S) == CHOOSE x \in S : \A y \in S : x <= y
Max(S) == CHOOSE x \in S : \A y \in S : x >= y

\* ------------------------------------------------- book feature derivation
\* A book row is a record with fields id (the snapshot's timestamp), bids and
\* asks (sequences of levels [price, amount], best first), and the columns added
\* to it.  A trade row is [id, timestamp, price, amount, type].

get_width_and_mid(book) ==
    LET best_bid == Num(book.bids[1].price)
        best_ask == Num(book.asks[1].price)
    IN  <<RSub(best_ask, best_bid), RDiv(RAdd(best_bid, best_ask), Num(2))>>

\* x.amount*(.5*book.width/(x.price-book.mid))**power
calc(x, width, mid, power) ==
    RMul(Num(x.amount),
         RPow(RDiv(RMul(Rat(1, 2), width), RSub(Num(x.price), mid)), power))

\* Arithmetic of two Series aligns them on their index (here the positions
\* 0..k-1 of the levels): a position only one of them has gives a missing value.
AlignedSub(a, b) ==
    [i \in 1..(IF Len(a) > Len(b) THEN Len(a) ELSE Len(b)) |->
        IF i <= Len(a) /\ i <= Len(b) THEN RSub(a[i], b[i]) ELSE Missing]
AlignedAdd(a, b) ==
    [i \in 1..(IF Len(a) > Len(b) THEN Len(a) ELSE Len(b)) |->
        IF i <= Len(a) /\ i <= Len(b) THEN RAdd(a[i], b[i]) ELSE Missing]

calc_imbalance(book, n, power) ==
    LET bids == Take(book.bids, n)
        asks == Take(book.asks, n)
        bid_imbalance == [i \in DOMAIN bids |-> calc(bids[i], book.width, book.mid, power)]
        ask_imbalance == [i \in DOMAIN asks |-> calc(asks[i], book.width, book.mid, power)]
    IN  Sum(AlignedSub(bid_imbalance, ask_imbalance))

get_power_imbalance(books, n, power) ==
    [i \in DOMAIN books |-> calc_imbalance(books[i], n, power)]

calc_adjusted_price(book, n, power) ==
    LET bids == Take(book.bids, n)
        asks == Take(book.asks, n)
        bid_inv == [i \in DOMAIN bids |->
                      RDiv(Num(1), calc(bids[i], book.width, book.mid, power))]
        ask_inv == [i \in DOMAIN asks |->
                      RDiv(Num(1), calc(asks[i], book.width, book.mid, power))]
        bid_w == [i \in DOMAIN bids |-> RMul(Num(bids[i].price), bid_inv[i])]
        ask_w == [i \in DOMAIN asks |-> RMul(Num(asks[i].price), ask_inv[i])]
    IN  RDiv(Sum(AlignedAdd(bid_w, ask_w)), Sum(AlignedAdd(bid_inv, ask_inv)))

get_power_adjusted_price(books, n, power) ==
    [i \in DOMAIN books |-> calc_adjusted_price(books[i], n, power)]

\* ------------------------------------------------------ label derivation
\* A variant that takes the last timestamp at or below the target (method='pad').
get_loc_pad(books, target) ==
    IF \E i \in DOMAIN books : books[i].id <= target
    THEN CHOOSE i \in DOMAIN books :
            /\ books[i].id <= target
            /\ \A j \in DOMAIN books : books[j].id <= target => books[j].id <= books[i].id
    ELSE 1

\* books.index.get_loc(target, method='nearest'): the position of the closest
\* timestamp of a unique index; of two equally close ones pandas takes the larger.
get_loc_nearest(books, target) ==
    CHOOSE i \in DOMAIN books : \A j \in DOMAIN books :
        \/ Abs(books[i].id - target) < Abs(books[j].id - target)
        \/ /\ Abs(books[i].id - target) = Abs(books[j].id - target)
           /\ books[i].id >= books[j].id

\* A variant that accepts a distance equal to the sensitivity.
future_within_or_equal(books, timestamp, offset, sensitivity) ==
    LET i == get_loc_nearest(books, timestamp + offset)
    IN  IF Abs(books[i].id - (timestamp + offset)) <= sensitivity
        THEN books[i].mid
        ELSE Missing

future(books, timestamp, offset, sensitivity) ==
    LET i == get_loc_nearest(books, timestamp + offset)
    IN  IF Abs(books[i].id - (timestamp + offset)) < sensitivity
        THEN books[i].mid
        ELSE Missing

get_future_mid(books, offset, sensitivity) ==
    [r \in DOMAIN books |-> future(books, books[r].id, offset, sensitivity)]

\* ------------------------------------------------ trade feature derivation
\* numpy's searchsorted: a binary search over positions lo..hi-1 (0-based) of
\* the timestamp column, whatever the column's order.
RECURSIVE searchsorted_left(_, _, _, _)
searchsorted_left(trades, key, lo, hi) ==
    IF lo >= hi THEN lo
    ELSE LET m == lo + ((hi - lo) \div 2)
         IN  IF trades[m + 1].timestamp < key
             THEN searchsorted_left(trades, key, m + 1, hi)
             ELSE searchsorted_left(trades, key, lo, m)

RECURSIVE searchsorted_right(_, _, _, _)
searchsorted_right(trades, key, lo, hi) ==
    IF lo >= hi THEN lo
    ELSE LET m == lo + ((hi - lo) \div 2)
         IN  IF trades[m + 1].timestamp <= key
             THEN searchsorted_right(trades, key, m + 1, hi)
             ELSE searchsorted_right(trades, key, lo, m)

\* A variant whose upper key is ts instead of ts-1.
get_trades_in_range_upto_ts(trades, ts, offset) ==
    LET i_0 == searchsorted_left(trades, ts - offset, 0, Len(trades))
        i_n == searchsorted_right(trades, ts, 0, Len(trades))
    IN  SubSeq(trades, i_0 + 1, i_n)

get_trades_in_range(trades, ts, offset) ==
    LET i_0 == searchsorted_left(trades, ts - offset, 0, Len(trades))
        i_n == searchsorted_right(trades, ts - 1, 0, Len(trades))
    IN  SubSeq(trades, i_0 + 1, i_n)

mean_trades(trades, ts, offset) ==
    LET trades_n == get_trades_in_range(trades, ts, offset)
    IN  IF trades_n /= <<>>
        THEN RDiv(Sum([i \in DOMAIN trades_n |->
                         Num(trades_n[i].price * trades_n[i].amount)]),
                  Sum([i \in DOMAIN trades_n |-> Num(trades_n[i].amount)]))
        ELSE Missing

get_trades_average(books, trades, offset) ==
    [r \in DOMAIN books |-> mean_trades(trades, books[r].id, offset)]

aggressor(trades, ts, offset) ==
    LET trades_n == get_trades_in_range(trades, ts, offset)
        buy_vol == Sum([i \in DOMAIN trades_n |->
                          IF trades_n[i].type = "buy"
                          THEN Num(trades_n[i].amount) ELSE Zero])
        sell_vol == Sum([i \in DOMAIN trades_n |->
                           IF trades_n[i].type /= "buy"
                           THEN Num(trades_n[i].amount) ELSE Zero])
    IN  RSub(buy_vol, sell_vol)

get_aggressor(books, trades, offset) ==
    [r \in DOMAIN books |-> aggressor(trades, books[r].id, offset)]

\* scipy's linregress(x, y)[0]: the least-squares slope cov(x, y) / var(x).
linregress_slope(x, y) ==
    LET n == Len(x)
        sx == Sum([i \in DOMAIN x |-> Num(x[i])])
        sy == Sum([i \in DOMAIN y |-> Num(y[i])])
        sxy == Sum([i \in DOMAIN x |-> Num(x[i] * y[i])])
        sxx == Sum([i \in DOMAIN x |-> Num(x[i] * x[i])])
    IN  RDiv(RSub(RMul(Num(n), sxy), RMul(sx, sy)),
             RSub(RMul(Num(n), sxx), RMul(sx, sx)))

\* trades_n.index is the trades' _id (get_trade_df: set_index('_id')).
trend(trades, ts, offset) ==
    LET trades_n == get_trades_in_range(trades, ts, offset)
    IN  IF Len(trades_n) < 3
        THEN Zero
        ELSE linregress_slope([i \in DOMAIN trades_n |-> trades_n[i].id],
                              [i \in DOMAIN trades_n |-> trades_n[i].price])

get_trend(books, trades, offset) ==
    [r \in DOMAIN books |-> trend(trades, books[r].id, offset)]

\* ------------------------------------------------------------------ state
VARIABLES
    db,             \* the store: [books: set of snapshots, trades: set of trades]
    live, sample, mid_offsets, trades_offsets,   \* arguments of make_features
    pc,             \* make_features' position
    k,              \* position in the offset list being looped over
    books,          \* the DataFrame books: a sequence of rows
    trades,         \* the DataFrame trades: a sequence of rows
    fn, arg, ret    \* a function called on its own: its name, arguments, <<result>>

vars == <<db, live, sample, mid_offsets, trades_offsets, pc, k, books, trades,
          fn, arg, ret>>

\* ----------------------------------------------- functions called on their own
SeqsUpTo(S, n) == UNION {[1..m -> S] : m \in 0..n}
Increasing(s) == \A i \in DOMAIN s : \A j \in DOMAIN s : i < j => s[i] < s[j]
Decreasing(s) == \A i \in DOMAIN s : \A j \in DOMAIN s : i < j => s[i] > s[j]
NonDecreasing(s) == \A i \in DOMAIN s : \A j \in DOMAIN s : i < j => s[i] <= s[j]

TradeTimes == 0..2
Prices == 1..3
Amounts == 1..2

\* Trade tables over given timestamps; the other columns do not matter to the lookup.
RangeArgs ==
    {[trades |-> [i \in DOMAIN t |-> [id |-> i, timestamp |-> t[i], price |-> 1,
                                      amount |-> 1, type |-> "buy"]],
      ts |-> ts, offset |-> o] :
        t \in SeqsUpTo(TradeTimes, MaxLen), ts \in 0..4, o \in 1..MaxOffset}

\* Trade tables in _id order whose timestamps ascend, as the lookup requires.
TrendArgs ==
    UNION {
      {[trades |-> [i \in 1..m |-> [id |-> x[i], timestamp |-> t[i], price |-> q[i],
                                    amount |-> 1, type |-> "buy"]],
        ts |-> 3, offset |-> o] :
          x \in {y \in [1..m -> 1..(MaxTrades + 1)] : Increasing(y)},
          t \in {y \in [1..m -> TradeTimes] : NonDecreasing(y)},
          q \in [1..m -> Prices],
          o \in {2, 3}} : m \in 0..MaxTrades}

\* Book tables with a unique index, ascending or descending, and the mid column.
FutureArgs ==
    UNION {
      {[books |-> [i \in 1..m |-> [id |-> x[i], mid |-> Num(q[i])]],
        offset |-> o, sensitivity |-> sv] :
          x \in {y \in [1..m -> 0..MaxTs] : Increasing(y) \/ Decreasing(y)},
          q \in [1..m -> 1..2],
          o \in (1..MaxOffset) \cup {-d : d \in 1..MaxOffset},
          sv \in 1..2} : m \in 1..(MaxTs + 1)}

\* One side of a book: levels of strictly improving distance from the best price.
Sides(prices, n, up) ==
    {s \in UNION {[1..m -> [price : prices, amount : Amounts]] : m \in 1..n} :
        \A i \in DOMAIN s : \A j \in DOMAIN s :
            i < j => IF up THEN s[i].price < s[j].price ELSE s[i].price > s[j].price}

WithWidthAndMid(book) ==
    [id |-> book.id, bids |-> book.bids, asks |-> book.asks,
     width |-> get_width_and_mid(book)[1], mid |-> get_width_and_mid(book)[2]]

ImbalanceArgs ==
    {[books |-> <<WithWidthAndMid([id |-> 0, bids |-> b, asks |-> a])>>,
      n |-> n, power |-> p] :
        b \in Sides(1..(MaxLevels + 1), MaxLevels, FALSE),
        a \in Sides((MaxLevels + 2)..(2 * MaxLevels + 2), MaxLevels, TRUE),
        n \in 1..(MaxLevels + 1), p \in 1..2}

Idle ==
    /\ db = [books |-> {}, trades |-> {}]
    /\ live = FALSE /\ sample = 0 /\ mid_offsets = <<>> /\ trades_offsets = <<>>
    /\ pc = "idle" /\ k = 0 /\ books = <<>> /\ trades = <<>>

InitFn ==
    /\ Idle
    /\ ret = <<>>
    /\ \/ fn = "get_trades_in_range" /\ arg \in RangeArgs
       \/ fn = "get_trend" /\ arg \in TrendArgs
       \/ fn = "get_future_mid" /\ arg \in FutureArgs
       \/ fn = "get_power_imbalance" /\ arg \in ImbalanceArgs

Pipeline == <<db, live, sample, mid_offsets, trades_offsets, pc, k, books, trades>>

Call_get_trades_in_range ==
    /\ fn = "get_trades_in_range" /\ ret = <<>>
    /\ ret' = <<get_trades_in_range(arg.trades, arg.ts, arg.offset)>>
    /\ UNCHANGED <<Pipeline, fn, arg>>

Call_get_trend ==
    /\ fn = "get_trend" /\ ret = <<>>
    /\ ret' = <<get_trend(<<[id |-> arg.ts]>>, arg.trades, arg.offset)[1]>>
    /\ UNCHANGED <<Pipeline, fn, arg>>

Call_get_future_mid ==
    /\ fn = "get_future_mid" /\ ret = <<>>
    /\ ret' = <<get_future_mid(arg.books, arg.offset, arg.sensitivity)>>
    /\ UNCHANGED <<Pipeline, fn, arg>>

Call_get_power_imbalance ==
    /\ fn = "get_power_imbalance" /\ ret = <<>>
    /\ ret' = <<get_power_imbalance(arg.books, arg.n, arg.power)[1]>>
    /\ UNCHANGED <<Pipeline, fn, arg>>

NextFn ==
    \/ Call_get_trades_in_range
    \/ Call_get_trend
    \/ Call_get_future_mid
    \/ Call_get_power_imbalance

SpecFn == InitFn /\ [][NextFn]_vars

\* ------------------------------------------------------------ the store
\* Sort a set of documents by their unique id.
RECURSIVE SortById(_, _)
SortById(docs, ascending) ==
    IF docs = {} THEN <<>>
    ELSE LET first == CHOOSE d \in docs : \A e \in docs :
                          IF ascending THEN d.id <= e.id ELSE d.id >= e.id
         IN  <<first>> \o SortById(docs \ {first}, ascending)

\* books_db.find().limit(limit).sort('_id', sort_order): the server sorts, then
\* limits.  The per-offset columns start as empty families of columns.
get_book_df(limit, ascending) ==
    LET sorted == SortById(db.books, ascending)
    IN  [i \in DOMAIN Take(sorted, limit) |->
            [id |-> sorted[i].id, bids |-> sorted[i].bids, asks |-> sorted[i].asks]]

\* trades_db.find({'timestamp': {'$gt': min_ts, '$lt': max_ts}}).sort('_id', ASCENDING)
get_trade_df(min_ts, max_ts) ==
    SortById({t \in db.trades : t.timestamp > min_ts /\ t.timestamp < max_ts}, TRUE)

\* ------------------------------------------------------------ make_features
\* A variant of dropna that keeps every row.
dropna_keeps_all(rows) == rows

\* books.dropna(): the rows with no missing value in any column.
dropna(rows) ==
    LET Complete(row) == /\ ~IsMissing(row.width) /\ ~IsMissing(row.mid)
                         /\ \A n \in DOMAIN row.midN : ~IsMissing(row.midN[n])
                         /\ \A n \in DOMAIN row.prevN : ~IsMissing(row.prevN[n])
    IN  SelectSeq(rows, Complete)

\* Lines 208-217: fetch the books, add width and mid.  An empty result has no
\* column '_id' and set_index raises.
GetBooks ==
    /\ pc = "start"
    /\ IF db.books = {}
       THEN pc' = "raised" /\ UNCHANGED books
       ELSE LET fetched == get_book_df(sample, ~live)
            IN  /\ books' = [i \in DOMAIN fetched |->
                               fetched[i] @@
                               [width |-> get_width_and_mid(fetched[i])[1],
                                mid |-> get_width_and_mid(fetched[i])[2],
                                midN |-> <<>>, prevN |-> <<>>,
                                tradesN |-> <<>>, aggressorN |-> <<>>, trendN |-> <<>>]]
                /\ pc' = "mid_offsets"
    /\ k' = 1
    /\ UNCHANGED <<db, live, sample, mid_offsets, trades_offsets, trades, fn, arg, ret>>

\* Lines 218-225: one turn of the loop over mid_offsets.
MidOffset ==
    /\ pc = "mid_offsets" /\ k <= Len(mid_offsets)
    /\ LET n == mid_offsets[k]
           fwd == get_future_mid(books, n, 1)
           bwd == get_future_mid(books, -n, 1)
       IN  books' = [i \in DOMAIN books |->
               [books[i] EXCEPT
                  !.midN = (n :> Log(RDiv(fwd[i], books[i].mid))) @@ @,
                  !.prevN = (n :> fillna(Log(RDiv(books[i].mid, bwd[i])))) @@ @]]
    /\ k' = k + 1
    /\ UNCHANGED <<db, live, sample, mid_offsets, trades_offsets, pc, trades, fn, arg, ret>>

\* Lines 226-230: in training mode, drop the observations whose y is missing.
DropNa ==
    /\ pc = "mid_offsets" /\ k > Len(mid_offsets)
    /\ books' = IF live THEN books ELSE dropna(books)
    /\ pc' = "power"
    /\ UNCHANGED <<db, live, sample, mid_offsets, trades_offsets, k, trades, fn, arg, ret>>

\* Lines 231-239: the power imbalance and power adjusted price columns.
PowerCalcs ==
    /\ pc = "power"
    /\ LET imbalance2 == get_power_imbalance(books, 10, 2)
           adjusted_price2 == get_power_adjusted_price(books, 10, 2)
           imbalance8 == get_power_imbalance(books, 10, 8)
           adjusted_price8 == get_power_adjusted_price(books, 10, 8)
       IN  books' = [i \in DOMAIN books |->
               books[i] @@
               [imbalance2 |-> imbalance2[i],
                adjusted_price2 |-> Log(RDiv(adjusted_price2[i], books[i].mid)),
                imbalance8 |-> imbalance8[i],
                adjusted_price8 |-> Log(RDiv(adjusted_price8[i], books[i].mid))]]
    /\ pc' = "get_trades"
    /\ UNCHANGED <<db, live, sample, mid_offsets, trades_offsets, k, trades, fn, arg, ret>>

\* Lines 242-244: fetch the trades.  books.index[0] raises on an empty table, and
\* an empty result of the query has no column '_id' for set_index.
GetTrades ==
    /\ pc = "get_trades"
    /\ IF books = <<>>
       THEN pc' = "raised" /\ UNCHANGED trades
       ELSE LET min_ts == books[1].id - trades_offsets[Len(trades_offsets)]
                max_ts == books[Len(books)].id
                fetched == get_trade_df(min_ts, max_ts)
            IN  IF fetched = <<>>
                THEN pc' = "raised" /\ UNCHANGED trades
                ELSE pc' = "trades_offsets" /\ trades' = fetched
    /\ k' = 1
    /\ UNCHANGED <<db, live, sample, mid_offsets, trades_offsets, books, fn, arg, ret>>

\* Lines 246-251: one turn of the loop over trades_offsets.
TradeOffset ==
    /\ pc = "trades_offsets" /\ k <= Len(trades_offsets)
    /\ LET n == trades_offsets[k]
           avg == get_trades_average(books, trades, n)
           agg == get_aggressor(books, trades, n)
           trd == get_trend(books, trades, n)
       IN  books' = [i \in DOMAIN books |->
               [books[i] EXCEPT
                  !.tradesN = (n :> fillna(Log(RDiv(books[i].mid, avg[i])))) @@ @,
                  !.aggressorN = (n :> agg[i]) @@ @,
                  !.trendN = (n :> trd[i]) @@ @]]
    /\ k' = k + 1
    /\ UNCHANGED <<db, live, sample, mid_offsets, trades_offsets, pc, trades, fn, arg, ret>>

\* Line 257: return the table without the raw depth columns.
Return ==
    /\ pc = "trades_offsets" /\ k > Len(trades_offsets)
    /\ ret' = <<[i \in DOMAIN books |->
                   [c \in DOMAIN books[i] \ {"bids", "asks"} |-> books[i][c]]]>>
    /\ pc' = "done"
    /\ UNCHANGED <<db, live, sample, mid_offsets, trades_offsets, k, books, trades, fn, arg>>

Next ==
    \/ GetBooks
    \/ MidOffset
    \/ DropNa
    \/ PowerCalcs
    \/ GetTrades
    \/ TradeOffset
    \/ Return

\* ------------------------------------------------------- the stores explored
\* Two depth shapes with different mids; which snapshot has which varies.
ShapeA == [bids |-> <<[price |-> 2, amount |-> 1]>>,
           asks |-> <<[price |-> 4, amount |-> 2]>>]
ShapeB == [bids |-> <<[price |-> 4, amount |-> 2], [price |-> 2, amount |-> 1]>>,
           asks |-> <<[price |-> 8, amount |-> 1]>>]

Snapshot(t, variant) ==
    LET shape == IF variant = 0 \/ (t + variant) % 2 = 0 THEN ShapeA ELSE ShapeB
    IN  [id |-> t, bids |-> shape.bids, asks |-> shape.asks]

BookStores ==
    {{Snapshot(t, v) : t \in T} : T \in SUBSET (0..MaxTs), v \in 0..2}

\* Trades with identifiers 1..m; timestamps in any order against the identifiers.
Trade(i, t, variant) ==
    [id |-> i, timestamp |-> t,
     price |-> IF variant = 0 THEN i ELSE 2,
     amount |-> 1 + (i % 2),
     type |-> IF (i + variant) % 2 = 0 THEN "buy" ELSE "sell"]

TradeStores(times, variants) ==
    {{Trade(i, t[i], v) : i \in DOMAIN t} : t \in SeqsUpTo(times, MaxTrades), v \in variants}

\* Lists of distinct offsets out of S, of length 1 or 2.
OffsetLists(S) ==
    {<<a>> : a \in S} \cup {l \in [1..2 -> S] : l[1] /= l[2]}

NotCalled == fn = "none" /\ arg = <<>> /\ ret = <<>>

\* Every book store with few trade stores, or few book stores with every trade store.
Init ==
    /\ pc = "start" /\ k = 0 /\ books = <<>> /\ trades = <<>>
    /\ NotCalled
    /\ live \in BOOLEAN
    /\ \/ /\ db \in [books : BookStores,
                     trades : TradeStores({0}, {1})]
          /\ sample \in {2, MaxTs + 1}
          /\ mid_offsets \in {l \in OffsetLists(1..MaxOffset) : Increasing(l)}
          /\ trades_offsets = <<MaxTradeOffset>>
       \/ /\ db \in [books : {{Snapshot(t, 1) : t \in T} : T \in {{1, 2}, {0, 2}, {0, 1, 2}}},
                     trades : TradeStores({-MaxTradeOffset, -1, 0, 1}, {0})]
          /\ sample = MaxTs + 1
          /\ mid_offsets = <<1>>
          /\ trades_offsets \in OffsetLists({1, MaxTradeOffset})

Spec == Init /\ [][Next]_vars

\* ------------------------------------------------- properties of the functions
Called(f) == fn = f /\ ret /= <<>>

SortedByTimestamp(t) ==
    \A i \in DOMAIN t : \A j \in DOMAIN t : i < j => t[i].timestamp <= t[j].timestamp

InWindow(t, ts, offset) == ts - offset <= t /\ t <= ts - 1

\* C1: on a trade table sorted ascending by timestamp, get_trades_in_range(trades,
\* ts, offset) with offset >= 1 returns exactly the trades whose timestamp lies in
\* [ts - offset, ts - 1], none with timestamp >= ts, as a contiguous slice in table
\* order.
C1_RangeExact ==
    (Called("get_trades_in_range") /\ SortedByTimestamp(arg.trades) /\ arg.offset >= 1) =>
        LET res == ret[1]
            inside == {i \in DOMAIN arg.trades :
                         InWindow(arg.trades[i].timestamp, arg.ts, arg.offset)}
        IN  /\ {res[i].id : i \in DOMAIN res} = inside
            /\ Len(res) = Cardinality(inside)
            /\ \E lo \in 0..Len(arg.trades) : res = SubSeq(arg.trades, lo + 1, lo + Len(res))
            /\ \A i \in DOMAIN res : res[i].timestamp < arg.ts

C1_Witness ==
    /\ Called("get_trades_in_range") /\ SortedByTimestamp(arg.trades)
    /\ Len(ret[1]) >= 2
    /\ \E i \in DOMAIN arg.trades : arg.trades[i].timestamp >= arg.ts
    /\ \E i \in DOMAIN arg.trades : arg.trades[i].timestamp < arg.ts - arg.offset

Dist(b, r, j, offset) == Abs(b[j].id - (b[r].id + offset))
MinDist(b, r, offset) == Min({Dist(b, r, j, offset) : j \in DOMAIN b})

\* C2: for every book row at timestamp t and every offset, positive or negative,
\* get_future_mid gives the mid of a row whose timestamp minimises
\* |timestamp - (t + offset)|, and a missing value when that minimum distance is
\* >= sensitivity.
C2_NearestMid ==
    Called("get_future_mid") =>
        \A r \in DOMAIN arg.books :
            LET d == MinDist(arg.books, r, arg.offset)
            IN  IF d < arg.sensitivity
                THEN \E j \in DOMAIN arg.books :
                        /\ Dist(arg.books, r, j, arg.offset) = d
                        /\ ret[1][r] = arg.books[j].mid
                ELSE ret[1][r] = Missing

C2_Witness ==
    /\ Called("get_future_mid") /\ arg.offset < 0
    /\ \E r \in DOMAIN arg.books :
          /\ MinDist(arg.books, r, arg.offset) = 1
          /\ ret[1][r] /= Missing /\ ret[1][r] /= arg.books[r].mid
    /\ \E r \in DOMAIN arg.books : ret[1][r] = Missing

\* C7 as stated: the lookup reports no match only if the closest distance exceeds
\* the sensitivity, so a closest entry at distance exactly the sensitivity is
\* returned.
C7_FailsOnlyBeyondSensitivity ==
    Called("get_future_mid") =>
        \A r \in DOMAIN arg.books :
            ret[1][r] = Missing => MinDist(arg.books, r, arg.offset) > arg.sensitivity

\* C7 amended: the lookup reports no match exactly when the closest distance is
\* greater than or equal to the sensitivity; at distance equal to the sensitivity
\* the result is missing.
C7_FailsFromSensitivity ==
    Called("get_future_mid") =>
        \A r \in DOMAIN arg.books :
            ret[1][r] = Missing <=> MinDist(arg.books, r, arg.offset) >= arg.sensitivity

C7_Witness ==
    /\ Called("get_future_mid")
    /\ \E r \in DOMAIN arg.books :
          /\ MinDist(arg.books, r, arg.offset) = arg.sensitivity
          /\ ret[1][r] = Missing

\* The trades of a table in the trailing window [ts - offset, ts - 1].
WindowOf(t, ts, offset) ==
    LET Test(x) == InWindow(x.timestamp, ts, offset) IN SelectSeq(t, Test)

\* The (timestamp, price) points lie on one line that is not vertical.
Collinear(w) ==
    /\ \E i \in DOMAIN w : \E j \in DOMAIN w : w[i].timestamp /= w[j].timestamp
    /\ \A i \in DOMAIN w : \A j \in DOMAIN w : \A m \in DOMAIN w :
          (w[j].price - w[i].price) * (w[m].timestamp - w[i].timestamp)
            = (w[m].price - w[i].price) * (w[j].timestamp - w[i].timestamp)

\* C5: get_trend is 0 on a window of fewer than 3 trades, and on >= 3 trades whose
\* (timestamp, price) points are collinear it is the slope of price against the
\* trade timestamp, whatever the trades' identifiers.
C5_TrendIsTimeSlope ==
    Called("get_trend") =>
        LET w == WindowOf(arg.trades, arg.ts, arg.offset)
        IN  /\ Len(w) < 3 => ret[1] = Zero
            /\ (Len(w) >= 3 /\ Collinear(w)) =>
                   ret[1] = linregress_slope([i \in DOMAIN w |-> w[i].timestamp],
                                             [i \in DOMAIN w |-> w[i].price])

\* C8: get_power_imbalance is the weighted volume of the top min(n, #bids) bid
\* levels minus that of the top min(n, #asks) ask levels, also when the two sides
\* have different numbers of levels.
C8_ImbalanceOverAllTopLevels ==
    Called("get_power_imbalance") =>
        LET book == arg.books[1]
            W(x) == RMul(Num(x.amount),
                         RPow(RDiv(RMul(Rat(1, 2), book.width),
                                   RSub(Num(x.price), book.mid)), arg.power))
            nb == IF arg.n < Len(book.bids) THEN arg.n ELSE Len(book.bids)
            na == IF arg.n < Len(book.asks) THEN arg.n ELSE Len(book.asks)
        IN  ret[1] = RSub(Sum([i \in 1..nb |-> W(book.bids[i])]),
                          Sum([i \in 1..na |-> W(book.asks[i])]))

\* --------------------------------------------- properties of make_features
\* The timestamps get_book_df fetches: the `sample` oldest in training mode, the
\* `sample` newest in live mode.
StoredIds == {b.id : b \in db.books}
FetchedIds ==
    {t \in StoredIds :
        Cardinality({u \in StoredIds : IF live THEN u > t ELSE u < t}) < sample}

RECURSIVE Ordered(_, _)
Ordered(S, ascending) ==
    IF S = {} THEN <<>>
    ELSE LET x == IF ascending THEN Min(S) ELSE Max(S)
         IN  <<x>> \o Ordered(S \ {x}, ascending)

Ids(rows) == [i \in DOMAIN rows |-> rows[i].id]
AfterDrop == pc \in {"power", "get_trades", "trades_offsets", "done"}
AfterFetch == pc \in {"trades_offsets", "done"}

\* A fetched snapshot lies within the sensitivity of 1 second of t + n.
HasForwardMatch(t, n) == \E u \in FetchedIds : Abs(u - (t + n)) < 1

\* C3: in training mode make_features keeps, and returns, exactly the fetched book
\* rows that have a valid forward match for every configured mid offset, in their
\* original order; in live mode it keeps and returns one row per fetched snapshot,
\* the forward column missing where there is no future row.
C3_RowsKept ==
    /\ AfterDrop =>
          IF live
          THEN /\ Ids(books) = Ordered(FetchedIds, FALSE)
               /\ \A i \in DOMAIN books : \A n \in Range(mid_offsets) :
                     ~HasForwardMatch(books[i].id, n) => books[i].midN[n] = Missing
          ELSE Ids(books) =
                  Ordered({t \in FetchedIds :
                             \A n \in Range(mid_offsets) : HasForwardMatch(t, n)}, TRUE)
    /\ pc = "done" =>
          /\ Ids(ret[1]) = Ids(books)
          /\ \A i \in DOMAIN books : ret[1][i].midN = books[i].midN

C3_Witness ==
    /\ pc = "done" /\ ~live /\ Len(mid_offsets) = 2
    /\ Len(ret[1]) >= 2
    /\ \E t \in FetchedIds : \A i \in DOMAIN ret[1] : ret[1][i].id /= t

\* Live mode returns several rows, one of them without a forward value.
C3_LiveReturned ==
    /\ pc = "done" /\ live /\ Len(ret[1]) >= 2
    /\ \E i \in DOMAIN ret[1] : \E n \in Range(mid_offsets) : ret[1][i].midN[n] = Missing
    /\ \E i \in DOMAIN ret[1] : \E n \in Range(mid_offsets) : ret[1][i].midN[n] /= Missing

\* C4: every stored trade in the trailing window [ts - offset, ts - 1] of some
\* retained book row ts and some configured offset is in the fetched trade table,
\* in training and in live mode and for any order of trades_offsets.
C4_WindowTradesFetched ==
    AfterFetch =>
        \A t \in db.trades :
            (\E i \in DOMAIN books : \E n \in Range(trades_offsets) :
                InWindow(t.timestamp, books[i].id, n))
            => t \in Range(trades)

\* C9: the trade table handed to the trailing-window lookups is sorted ascending
\* by timestamp, for every content of the trade store.
C9_TradesSortedByTimestamp == AfterFetch => SortedByTimestamp(trades)

IsNumber(v) == Len(v) \in {2, 3} /\ v[2] /= 0

\* C6: for a row whose trailing trade window is empty get_trades_average is
\* missing, get_aggressor is 0 and get_trend is 0, and the returned columns
\* trades<n>, aggressor<n>, trend<n> of that row are 0; a row with no snapshot at
\* t - n has prev<n> = 0; no returned trades<n>, aggressor<n>, trend<n> or prev<n>
\* is missing.
C6_MissingPolicy ==
    pc = "done" =>
        \A i \in DOMAIN ret[1] :
            LET row == ret[1][i] IN
            /\ \A n \in Range(trades_offsets) :
                  /\ WindowOf(trades, row.id, n) = <<>> =>
                        /\ mean_trades(trades, row.id, n) = Missing
                        /\ aggressor(trades, row.id, n) = Zero
                        /\ trend(trades, row.id, n) = Zero
                        /\ row.tradesN[n] = Zero
                        /\ row.aggressorN[n] = Zero
                        /\ row.trendN[n] = Zero
                  /\ IsNumber(row.tradesN[n])
                  /\ IsNumber(row.aggressorN[n])
                  /\ IsNumber(row.trendN[n])
            /\ \A n \in Range(mid_offsets) :
                  /\ (row.id - n) \notin FetchedIds => row.prevN[n] = Zero
                  /\ IsNumber(row.prevN[n])

C6_Witness ==
    /\ pc = "done" /\ Len(ret[1]) >= 2
    /\ \E i \in DOMAIN ret[1] : \E n \in Range(trades_offsets) :
          /\ WindowOf(trades, ret[1][i].id, n) = <<>>
          /\ (ret[1][i].id - mid_offsets[1]) \notin FetchedIds
    /\ \E i \in DOMAIN ret[1] : \E n \in Range(trades_offsets) :
          /\ Len(WindowOf(trades, ret[1][i].id, n)) >= 3
          /\ ret[1][i].tradesN[n] /= Zero
          /\ ret[1][i].trendN[n] /= Zero

MidAt(t) == get_width_and_mid(CHOOSE b \in db.books : b.id = t)[2]

\* C10: with integer timestamps and the sensitivity of 1, mid<n> of the row at t is
\* present iff a fetched snapshot lies at exactly t + n, and is then computed from
\* it; prev<n> is computed from the snapshot at exactly t - n iff there is one, and
\* is the fill value otherwise; in training mode a row is retained iff the book
\* table holds t + n for every configured mid offset n.
C10_ExactTimestampOnly ==
    /\ pc \in {"mid_offsets", "power"} =>
          \A i \in DOMAIN books : \A n \in DOMAIN books[i].midN :
              LET t == books[i].id IN
              /\ books[i].midN[n] /= Missing <=> (t + n) \in FetchedIds
              /\ (t + n) \in FetchedIds =>
                    books[i].midN[n] = Log(RDiv(MidAt(t + n), MidAt(t)))
              /\ books[i].prevN[n] =
                    IF (t - n) \in FetchedIds
                    THEN Log(RDiv(MidAt(t), MidAt(t - n)))
                    ELSE Zero
    /\ (AfterDrop /\ ~live) =>
          Range(Ids(books)) =
              {t \in FetchedIds : \A n \in Range(mid_offsets) : (t + n) \in FetchedIds}

\* A snapshot one second off the target exists, and the row is dropped all the same.
C10_Witness ==
    /\ pc = "power" /\ ~live /\ books /= <<>>
    /\ \E t \in FetchedIds : \E n \in Range(mid_offsets) :
          /\ (t + n) \notin FetchedIds
          /\ (t + n + 1) \in FetchedIds \/ (t + n - 1) \in FetchedIds
          /\ t \notin Range(Ids(books))
    /\ \E i \in DOMAIN books : \E n \in Range(mid_offsets) :
          books[i].prevN[n] /= Zero

====
